---------------------------- MODULE Spec2Model ----------------------------
(***************************************************************************)
(* Energy arbitrage with linear programming: the Battery class and the     *)
(* simulate_battery driver of codigo_tfm_prog_objetos.py.                  *)
(*                                                                         *)
(* Units.  Power (charge, discharge, the power caps, the throughput cap)   *)
(* and prices are integers.  Stored energy (initial_level, min_capacity,   *)
(* discharge_energy_capacity, the state of energy) is counted in halves,   *)
(* so that an efficiency is the integer number of halves credited or       *)
(* debited per unit of power: 2 stands for the efficiency 1.0 and 1 for    *)
(* 0.5.  The code's formulas are kept as they are written.                 *)
(*                                                                         *)
(* The hour literal 24 of the source (the window stride of line 236 and    *)
(* the number of values collect_output reads, lines 160 and 166) is        *)
(* DayHours; horizons below, at and above it are all modelled.             *)
(*                                                                         *)
(* The LP solver is external.  solve_model is modelled by its contract     *)
(* over the integer grid of the variables' boxes: Optimal with any         *)
(* feasible schedule of maximal objective, Infeasible when no schedule     *)
(* satisfies the constraints, and then the variable values are whatever    *)
(* the solver leaves (nothing, or any values).                             *)
(***************************************************************************)
EXTENDS Integers, Sequences, FiniteSets, TLC

\* ------------------------------------------------------------ bounds
MaxLevel == 2
MaxCalls == 4

\* ---------------------------------------------------------- constants
\* the literal 24 of lines 160, 166 and 236 (one model hour is 12 h)
DayHours == 2
\* range(1) of line 228
SimLength == 1

HorizonValues == {DayHours - 1, DayHours, DayHours + 1}
PowerValues == {0, 1}
EfficiencyValues == {1, 2}
\* the efficiency 1.0
FullEfficiency == CHOOSE e \in EfficiencyValues : \A f \in EfficiencyValues : f <= e
LevelValues == 0..MaxLevel
ThroughputValues == {1, 3}
PriceValues == {0, 1}

\* Python's None as the value of a variable, and a bound number
None == <<>>
Some(v) == <<v>>
Val(o) == o[1]

VARIABLES
    arg,                \* the arguments of simulate_battery / Battery()
    price_data,         \* the 'value' column, row labels 0..N-1
    objective,          \* Battery.model.objective: None or <<prices>>
    constraints,        \* Battery.model.constraints, in insertion order
    status,             \* pulp.LpStatus[Battery.model.status]
    charge,             \* varValue of charge[c_t_i], i in 0..H-1
    discharge,          \* varValue of discharge[d_t_i]
    pc,                 \* position in simulate_battery
    day_count,
    initial_level,
    hourly_charges,     \* what collect_output returned
    hourly_discharges,
    all_hourly_charges,
    all_hourly_discharges,
    all_hourly_state_of_energy,
    all_daily_discharge_throughput,
    error,              \* the exception raised, "none" if none
    calls               \* number of Battery method calls made by a client

battery == <<objective, constraints, status, charge, discharge>>
locals == <<hourly_charges, hourly_discharges>>
outputs == <<all_hourly_charges, all_hourly_discharges,
             all_hourly_state_of_energy, all_daily_discharge_throughput>>
vars == <<arg, price_data, battery, pc, day_count, initial_level, locals,
          outputs, error, calls>>

Hours == 0..(arg.time_horizon - 1)

Min(a, b) == IF a < b THEN a ELSE b

RECURSIVE Sum(_, _)
\* sum of f[0..n-1]
Sum(f, n) == IF n = 0 THEN 0 ELSE Sum(f, n - 1) + f[n - 1]

RECURSIVE SeqSum(_)
SeqSum(s) == IF s = <<>> THEN 0 ELSE s[1] + SeqSum(Tail(s))

RECURSIVE CumSum(_)
\* np.cumsum
CumSum(s) ==
    IF s = <<>> THEN <<>>
    ELSE LET front == SubSeq(s, 1, Len(s) - 1)
         IN  Append(CumSum(front), SeqSum(s))

\* ------------------------------------------------------------ Battery

\* Battery.__init__: the two dictionaries of bounded variables, not yet
\* valued, and an empty maximisation problem
Unvalued == [i \in Hours |-> None]

\* every assignment within the variables' bounds (lowBound=0, upBound=cap)
Schedules ==
    [c : [Hours -> 0..arg.max_charge_power_capacity],
     d : [Hours -> 0..arg.max_discharge_power_capacity]]

\* an objective that counts the revenue and not the cost of charging
ObjectiveValueRevenueOnly(prices, s) ==
    Sum([i \in Hours |-> prices[i + 1] * s.d[i]], arg.time_horizon)

\* the value of the objective expression on a schedule
ObjectiveValue(prices, s) ==
    Sum([i \in Hours |-> (0 - prices[i + 1]) * s.c[i]], arg.time_horizon)
    + Sum([i \in Hours |-> prices[i + 1] * s.d[i]], arg.time_horizon)

\* the left-hand side of a constraint on a schedule
Lhs(con, s) ==
    con.base
    + Sum([i \in 0..(con.hours - 1) |-> con.ceff * s.c[i]], con.hours)
    - Sum([i \in 0..(con.hours - 1) |-> con.deff * s.d[i]], con.hours)

Holds(con, s) ==
    IF con.sense = "ge" THEN Lhs(con, s) >= con.rhs ELSE Lhs(con, s) <= con.rhs

Feasible(cons) ==
    {s \in Schedules : \A j \in 1..Len(cons) : Holds(cons[j], s)}

\* the feasible schedules of maximal objective (LpMaximize)
Optimal(prices, cons) ==
    LET F == Feasible(cons)
        values == {ObjectiveValue(prices, s) : s \in F}
        best == CHOOSE v \in values : \A w \in values : w <= v
    IN  IF F = {} THEN {} ELSE {s \in F : ObjectiveValue(prices, s) = best}

\* an objective attached before the length is checked
SetObjectiveThenCheck(prices) ==
    /\ objective' = Some(prices)
    /\ error' = IF Len(prices) # arg.time_horizon THEN "AssertionError" ELSE "none"
    /\ UNCHANGED <<constraints, status, charge, discharge>>

\* set_objective: the assert, then model += expression
SetObjective(prices) ==
    IF Len(prices) # arg.time_horizon
    THEN /\ error' = "AssertionError"
         /\ UNCHANGED battery
    ELSE /\ objective' = Some(prices)
         /\ error' = "none"
         /\ UNCHANGED <<constraints, status, charge, discharge>>

\* the constraints of the first loop (>= min_capacity), hour_of_sim = 1..H
StorageLower(efficiency, min_capacity, discharge_efficiency, level) ==
    [k \in 1..arg.time_horizon |->
        [origin |-> "storage", sense |-> "ge", base |-> level, hours |-> k,
         ceff |-> efficiency, deff |-> discharge_efficiency,
         rhs |-> min_capacity]]

\* an upper bound that leaves initial_level out of the stored energy
StorageUpperWithoutLevel(efficiency, discharge_energy_capacity, discharge_efficiency, level) ==
    [k \in 1..arg.time_horizon |->
        [origin |-> "storage", sense |-> "le", base |-> 0, hours |-> k,
         ceff |-> efficiency, deff |-> discharge_efficiency,
         rhs |-> discharge_energy_capacity]]

\* the constraints of the second loop (<= discharge_energy_capacity)
StorageUpper(efficiency, discharge_energy_capacity, discharge_efficiency, level) ==
    [k \in 1..arg.time_horizon |->
        [origin |-> "storage", sense |-> "le", base |-> level, hours |-> k,
         ceff |-> efficiency, deff |-> discharge_efficiency,
         rhs |-> discharge_energy_capacity]]

\* a capacity bound at the end of the horizon only
StorageConstraintsLastHourOnly(efficiency, min_capacity, discharge_energy_capacity, discharge_efficiency, level) ==
    <<StorageLower(efficiency, min_capacity, discharge_efficiency, level)[arg.time_horizon],
      StorageUpper(efficiency, discharge_energy_capacity, discharge_efficiency, level)[arg.time_horizon]>>

StorageConstraints(efficiency, min_capacity, discharge_energy_capacity, discharge_efficiency, level) ==
    StorageLower(efficiency, min_capacity, discharge_efficiency, level)
    \o StorageUpper(efficiency, discharge_energy_capacity,
                    discharge_efficiency, level)

\* add_storage_constraints: model += constraint, 2H times
AddStorageConstraints(efficiency, min_capacity, discharge_energy_capacity, discharge_efficiency, level) ==
    /\ constraints' = constraints \o
            StorageConstraints(efficiency, min_capacity,
                               discharge_energy_capacity,
                               discharge_efficiency, level)
    /\ error' = "none"
    /\ UNCHANGED <<objective, status, charge, discharge>>

\* lpSum(discharge) <= max_daily_discharged_throughput
ThroughputConstraint(max_daily_discharged_throughput) ==
    [origin |-> "throughput", sense |-> "le", base |-> 0,
     hours |-> arg.time_horizon, ceff |-> 0, deff |-> 0 - 1,
     rhs |-> max_daily_discharged_throughput]

AddThroughputConstraints(max_daily_discharged_throughput) ==
    /\ constraints' = Append(constraints,
                             ThroughputConstraint(max_daily_discharged_throughput))
    /\ error' = "none"
    /\ UNCHANGED <<objective, status, charge, discharge>>

\* solve_model: model.solve(), and a printed warning when not Optimal
SolveModel ==
    LET best == Optimal(Val(objective), constraints)
    IN  /\ error' = "none"
        /\ UNCHANGED <<objective, constraints>>
        /\ IF best # {}
           THEN /\ status' = "Optimal"
                /\ \E s \in best :
                      /\ charge' = [i \in Hours |-> Some(s.c[i])]
                      /\ discharge' = [i \in Hours |-> Some(s.d[i])]
           ELSE /\ status' = "Infeasible"
                /\ \/ UNCHANGED <<charge, discharge>>
                   \/ \E s \in Schedules :
                         /\ charge' = [i \in Hours |-> Some(s.c[i])]
                         /\ discharge' = [i \in Hours |-> Some(s.d[i])]

\* collect_output: the varValue of the variables 0..23, a KeyError when the
\* dictionaries hold fewer
CollectOutput ==
    IF arg.time_horizon < DayHours
    THEN /\ error' = "KeyError"
         /\ UNCHANGED locals
    ELSE /\ hourly_charges' = [i \in 1..DayHours |-> charge[i - 1]]
         /\ hourly_discharges' = [i \in 1..DayHours |-> discharge[i - 1]]
         /\ error' = "none"

\* --------------------------------------------------- simulate_battery

\* price_data.loc[24 * day_count : 24 * day_count + time_horizon - 1]: the
\* rows whose labels lie in the range, fewer than H when the data ends
Window(d) ==
    SubSeq(price_data, DayHours * d + 1,
           Min(DayHours * d + arg.time_horizon, Len(price_data)))

\* line 266: the net hourly activity of the collected values
NetHourlyActivity(hc, hd) ==
    [i \in 1..Len(hc) |->
        Val(hc[i]) * arg.efficiency - Val(hd[i]) * arg.discharge_efficiency]

\* lines 268-271: initial_level + np.cumsum(net_hourly_activity)
StateOfEnergy(level, hc, hd) ==
    LET cum == CumSum(NetHourlyActivity(hc, hd))
    IN  [i \in 1..Len(cum) |-> level + cum[i]]

HasNone(h) == \E i \in 1..Len(h) : h[i] = None

Numbers(h) == [i \in 1..Len(h) |-> Val(h[i])]

SimSetObjective ==
    /\ pc = "set_objective"
    /\ SetObjective(Window(day_count))
    /\ pc' = IF error' = "none" THEN "add_storage" ELSE "raised"
    /\ UNCHANGED <<arg, price_data, day_count, initial_level, locals, outputs, calls>>

SimAddStorage ==
    /\ pc = "add_storage"
    /\ AddStorageConstraints(arg.efficiency, arg.min_capacity,
                             arg.discharge_energy_capacity,
                             arg.discharge_efficiency, initial_level)
    /\ pc' = "add_throughput"
    /\ UNCHANGED <<arg, price_data, day_count, initial_level, locals, outputs, calls>>

SimAddThroughput ==
    /\ pc = "add_throughput"
    /\ AddThroughputConstraints(arg.max_daily_discharged_throughput)
    /\ pc' = "solve"
    /\ UNCHANGED <<arg, price_data, day_count, initial_level, locals, outputs, calls>>

SimSolve ==
    /\ pc = "solve"
    /\ SolveModel
    /\ pc' = "collect"
    /\ UNCHANGED <<arg, price_data, day_count, initial_level, locals, outputs, calls>>

SimCollect ==
    /\ pc = "collect"
    /\ CollectOutput
    /\ pc' = IF error' = "none" THEN "append" ELSE "raised"
    /\ UNCHANGED <<arg, price_data, battery, day_count, initial_level, outputs, calls>>

\* lines 263-295: the arithmetic on the collected arrays (a TypeError on
\* None), the four appends, the level carried to the next day, and the
\* loop's next iteration or its end
SimAppend ==
    /\ pc = "append"
    /\ UNCHANGED <<arg, price_data, battery, locals, calls>>
    /\ IF HasNone(hourly_discharges) \/ HasNone(hourly_charges)
       THEN /\ error' = "TypeError"
            /\ pc' = "raised"
            /\ UNCHANGED <<day_count, initial_level, outputs>>
       ELSE LET state_of_energy_from_t2 ==
                    StateOfEnergy(initial_level, hourly_charges, hourly_discharges)
            IN  /\ all_hourly_charges' =
                       all_hourly_charges \o Numbers(hourly_charges)
                /\ all_hourly_discharges' =
                       all_hourly_discharges \o Numbers(hourly_discharges)
                /\ all_hourly_state_of_energy' =
                       all_hourly_state_of_energy \o state_of_energy_from_t2
                /\ all_daily_discharge_throughput' =
                       Append(all_daily_discharge_throughput,
                              SeqSum(Numbers(hourly_discharges)))
                /\ initial_level' =
                       state_of_energy_from_t2[Len(state_of_energy_from_t2)]
                /\ day_count' = day_count + 1
                /\ pc' = IF day_count + 1 < SimLength
                         THEN "set_objective" ELSE "done"
                /\ error' = "none"

\* the data sets a run is given: a horizon's worth of prices less one row,
\* exactly one window, or two windows
PriceLengths(h) == {h - 1, h, DayHours + h}

\* hourly prices with a daily pattern w, n rows of them
Repeat(w, n) == [i \in 1..n |-> w[((i - 1) % Len(w)) + 1]]

PriceData(h) ==
    {Repeat(w, n) : w \in [1..h -> PriceValues], n \in PriceLengths(h)}

Args ==
    [time_horizon : HorizonValues,
     max_discharge_power_capacity : PowerValues,
     max_charge_power_capacity : PowerValues,
     discharge_energy_capacity : LevelValues,
     efficiency : EfficiencyValues,
     discharge_efficiency : EfficiencyValues,
     max_daily_discharged_throughput : ThroughputValues,
     min_capacity : LevelValues,
     initial_level : LevelValues]

\* simulate_battery up to its loop: empty outputs, Battery(...) constructed
Init ==
    /\ arg \in Args
    /\ price_data \in PriceData(arg.time_horizon)
    /\ objective = None
    /\ constraints = <<>>
    /\ status = "Not Solved"
    /\ charge = Unvalued
    /\ discharge = Unvalued
    /\ pc = "set_objective"
    /\ day_count = 0
    /\ initial_level = arg.initial_level
    /\ hourly_charges = <<>>
    /\ hourly_discharges = <<>>
    /\ all_hourly_charges = <<>>
    /\ all_hourly_discharges = <<>>
    /\ all_hourly_state_of_energy = <<>>
    /\ all_daily_discharge_throughput = <<>>
    /\ error = "none"
    /\ calls = 0

Next ==
    \/ SimSetObjective
    \/ SimAddStorage
    \/ SimAddThroughput
    \/ SimSolve
    \/ SimCollect
    \/ SimAppend

Spec == Init /\ [][Next]_vars

\* ------------------------------------------- a Battery used by a caller
\* The public methods of one Battery instance called by any caller, in any
\* order, at most MaxCalls times; pc names the method called last, and
\* initial_level is the level the caller last derived constraints from.

BatteryArgs ==
    {a \in Args : /\ a.max_charge_power_capacity = 1
                  /\ a.max_discharge_power_capacity = 1
                  /\ a.efficiency = FullEfficiency
                  /\ a.discharge_efficiency = FullEfficiency
                  /\ a.min_capacity = 0
                  /\ a.discharge_energy_capacity = MaxLevel
                  /\ a.max_daily_discharged_throughput = 1
                  /\ a.initial_level = 0}

CallerPrices ==
    UNION {[1..n -> PriceValues] : n \in {arg.time_horizon - 1, arg.time_horizon}}

driver == <<arg, price_data, day_count, outputs>>

BatteryInit ==
    /\ arg \in BatteryArgs
    /\ price_data = <<>>
    /\ objective = None
    /\ constraints = <<>>
    /\ status = "Not Solved"
    /\ charge = Unvalued
    /\ discharge = Unvalued
    /\ pc = "__init__"
    /\ day_count = 0
    /\ initial_level = arg.initial_level
    /\ hourly_charges = <<>>
    /\ hourly_discharges = <<>>
    /\ all_hourly_charges = <<>>
    /\ all_hourly_discharges = <<>>
    /\ all_hourly_state_of_energy = <<>>
    /\ all_daily_discharge_throughput = <<>>
    /\ error = "none"
    /\ calls = 0

CallSetObjective ==
    /\ calls < MaxCalls
    /\ \E prices \in CallerPrices : SetObjective(prices)
    /\ pc' = "set_objective"
    /\ calls' = calls + 1
    /\ UNCHANGED <<driver, initial_level, locals>>

CallAddStorage ==
    /\ calls < MaxCalls
    /\ \E level \in LevelValues :
          /\ AddStorageConstraints(arg.efficiency, arg.min_capacity,
                                   arg.discharge_energy_capacity,
                                   arg.discharge_efficiency, level)
          /\ initial_level' = level
    /\ pc' = "add_storage_constraints"
    /\ calls' = calls + 1
    /\ UNCHANGED <<driver, locals>>

CallAddThroughput ==
    /\ calls < MaxCalls
    /\ AddThroughputConstraints(arg.max_daily_discharged_throughput)
    /\ pc' = "add_throughput_constraints"
    /\ calls' = calls + 1
    /\ UNCHANGED <<driver, initial_level, locals>>

\* solve_model once an objective is attached
CallSolve ==
    /\ calls < MaxCalls
    /\ objective # None
    /\ SolveModel
    /\ pc' = "solve_model"
    /\ calls' = calls + 1
    /\ UNCHANGED <<driver, initial_level, locals>>

CallCollect ==
    /\ calls < MaxCalls
    /\ CollectOutput
    /\ pc' = "collect_output"
    /\ calls' = calls + 1
    /\ UNCHANGED <<driver, battery, initial_level>>

BatteryNext ==
    \/ CallSetObjective
    \/ CallAddStorage
    \/ CallAddThroughput
    \/ CallSolve
    \/ CallCollect

BatterySpec == BatteryInit /\ [][BatteryNext]_vars

\* ------------------------------------------------------------- claims

InBounds(x) == arg.min_capacity <= x /\ x <= arg.discharge_energy_capacity

\* the values the solver bound, as a schedule
Solution ==
    [c |-> [i \in Hours |-> Val(charge[i])],
     d |-> [i \in Hours |-> Val(discharge[i])]]

\* the stored energy after the first k hours of the solution, from level
PrefixLevel(level, k) ==
    level
    + Sum([i \in Hours |-> Solution.c[i] * arg.efficiency], k)
    - Sum([i \in Hours |-> Solution.d[i] * arg.discharge_efficiency], k)

\* C1: in a period whose solve is Optimal the stored energy after every
\* prefix of 1..H hours of the schedule, counted from the level the period
\* started from, lies within [min_capacity, discharge_energy_capacity]; so
\* does every state-of-energy value computed from the extracted schedule
\* and appended to the output.
C1_CapacityAtEveryHour ==
    status = "Optimal" =>
        /\ pc \in {"collect", "append"} =>
              \A k \in 1..arg.time_horizon : InBounds(PrefixLevel(initial_level, k))
        /\ pc = "append" =>
              LET soe == StateOfEnergy(initial_level, hourly_charges, hourly_discharges)
              IN  \A k \in 1..Len(soe) : InBounds(soe[k])
        /\ \A k \in 1..Len(all_hourly_state_of_energy) :
              InBounds(all_hourly_state_of_energy[k])

\* an Optimal period of two hours or more in which the battery moves
C1_Witness ==
    /\ status = "Optimal"
    /\ pc = "append"
    /\ arg.time_horizon > DayHours
    /\ \E i \in Hours : Solution.c[i] > 0
    /\ \E i \in Hours : Solution.d[i] > 0
    /\ \E k \in 1..arg.time_horizon : PrefixLevel(initial_level, k) # initial_level

SeedInBounds == InBounds(arg.initial_level)

ZeroSchedule == [c |-> [i \in Hours |-> 0], d |-> [i \in Hours |-> 0]]

\* C10: when the seed level lies within the capacity bounds, the carried
\* level stays within them, the all-zero schedule satisfies the model that
\* is solved, and no solve ends with a status other than Optimal.
C10_FeasibilityPreserved ==
    SeedInBounds =>
        /\ InBounds(initial_level)
        /\ status \in {"Not Solved", "Optimal"}
        /\ pc = "solve" => ZeroSchedule \in Feasible(constraints)
        /\ error \notin {"TypeError"}

\* a finished period that moved the carried level away from the seed
C10_Witness ==
    /\ SeedInBounds
    /\ pc = "done"
    /\ status = "Optimal"
    /\ initial_level # arg.initial_level

EqualNonnegativePrices(prices) ==
    /\ \A i \in 1..Len(prices) : prices[i] >= 0
    /\ \A i, j \in 1..Len(prices) : prices[i] = prices[j]

NoLosses ==
    /\ arg.efficiency = FullEfficiency
    /\ arg.discharge_efficiency = FullEfficiency

ObjectiveSanityCase ==
    /\ status = "Optimal"
    /\ pc \in {"collect", "append"}
    /\ NoLosses
    /\ EqualNonnegativePrices(Val(objective))

C6_Step ==
    /\ pc = "set_objective" =>
          IF Len(Window(day_count)) # arg.time_horizon
          THEN /\ error' = "AssertionError"
               /\ pc' = "raised"
               /\ UNCHANGED battery
               /\ status' = "Not Solved"
          ELSE /\ objective' = Some(Window(day_count))
               /\ error' = "none"
               /\ UNCHANGED <<constraints, status, charge, discharge>>
    /\ pc' = "solve" => Len(Val(objective')) = arg.time_horizon

\* C6: set_objective given a price window whose length differs from the
\* horizon raises its AssertionError, simulate_battery stops there with no
\* solve attempted, and the objective, constraints and variable values are
\* as before the call; given H prices it attaches them as the objective and
\* changes nothing else of the model, so a model that reaches solve has an
\* objective of H prices.
C6_SetObjectiveShape == [][C6_Step]_vars

\* a window shorter than the horizon was refused
C6_Witness ==
    /\ pc = "raised"
    /\ error = "AssertionError"
    /\ Len(Window(day_count)) # arg.time_horizon
    /\ Len(price_data) > 0

\* the price windows the data holds: the periods whose H rows are all there
NumberOfWindows ==
    Cardinality({d \in 0..Len(price_data) :
                    DayHours * d + arg.time_horizon <= Len(price_data)})

\* the state-of-energy trajectories of one period run on its own from level
SinglePeriodTrajectories(level, prices) ==
    LET cons == Append(StorageConstraints(arg.efficiency, arg.min_capacity,
                                          arg.discharge_energy_capacity,
                                          arg.discharge_efficiency, level),
                       ThroughputConstraint(arg.max_daily_discharged_throughput))
    IN  {StateOfEnergy(level,
                       [i \in 1..DayHours |-> Some(s.c[i - 1])],
                       [i \in 1..DayHours |-> Some(s.d[i - 1])]) :
            s \in Optimal(prices, cons)}

\* C2: a run over price data of two periods returns the state of energy
\* of two periods: the first is a single period's trajectory from the seed,
\* the second a single period's trajectory from the level the first ended
\* at.
C2_Chaining ==
    (pc = "done" /\ NumberOfWindows >= 2) =>
        LET soe == all_hourly_state_of_energy
            n == Len(soe) \div 2
            first == SubSeq(soe, 1, n)
            second == SubSeq(soe, n + 1, Len(soe))
        IN  /\ Len(all_daily_discharge_throughput) = 2
            /\ first \in SinglePeriodTrajectories(arg.initial_level, Window(0))
            /\ second \in SinglePeriodTrajectories(first[n], Window(1))
            /\ initial_level = second[n]

\* C3: at solve time every storage constraint of the model is derived from
\* the level of the period being solved.
C3_NoStaleConstraints ==
    pc = "solve_model" =>
        \A j \in 1..Len(constraints) :
            constraints[j].origin = "storage" => constraints[j].base = initial_level

\* C4: after a solve collect_output returns H charge values and H
\* discharge values, entry i the value of charge[i] / discharge[i].
C4_SeriesOfHorizonLength ==
    /\ (pc = "raised" /\ status # "Not Solved") => error # "KeyError"
    /\ pc = "append" =>
          /\ Len(hourly_charges) = arg.time_horizon
          /\ Len(hourly_discharges) = arg.time_horizon
          /\ \A i \in Hours : /\ hourly_charges[i + 1] = charge[i]
                              /\ hourly_discharges[i + 1] = discharge[i]

\* C5: simulate_battery returns once every price window has been
\* processed; the hourly outputs then hold H values per window and the
\* throughput output one value per window.
C5_EveryWindowProcessed ==
    pc = "done" =>
        /\ Len(all_daily_discharge_throughput) = NumberOfWindows
        /\ Len(all_hourly_charges) = arg.time_horizon * NumberOfWindows
        /\ Len(all_hourly_discharges) = arg.time_horizon * NumberOfWindows
        /\ Len(all_hourly_state_of_energy) = arg.time_horizon * NumberOfWindows

\* C7: after a solve that is not Optimal nothing is raised: the period's
\* values are extracted and appended and the level is advanced.
C7_NonOptimalContinues ==
    status = "Infeasible" =>
        /\ error = "none"
        /\ pc # "raised"

\* C8: collect_output on a model that was never solved fails with an error.
C8_UnsolvedExtractionFails ==
    (pc = "collect_output" /\ status = "Not Solved") => error # "none"

=============================================================================
